---- MODULE Spec2Model ----
(***************************************************************************)
(* HP-model conformation generators of the thesis notebooks:               *)
(*   - stochastic break sampling       (Experiment 1, E1 initialize_grid)  *)
(*   - deterministic break sampling    (Experiment 2,                      *)
(*                                      initialize_grid_directional)       *)
(*   - recursive backtracking sampling (Experiment 1, E4 place_amino_acid) *)
(* and the contact analysis (find_H_pairs_grid, find_H_pairs_order,        *)
(* find_H_bonds) that generate_random_samples runs on their result.        *)
(*                                                                         *)
(* A position is the tuple <<row, col>>; an entry of amino_acid_order is   *)
(* the tuple <<amino_acid_type, <<row, col>>>>, as in the Python source.   *)
(* The grid is a function from the cells of the 2n x 2n lattice to the     *)
(* cell content: "" (empty), "H", "P" (and "F", which the code only reads).*)
(***************************************************************************)
EXTENDS Integers, Sequences, FiniteSets, TLC

\* Longest chain given to the stochastic and the backtracking engine.
MaxLen == 9

\* Longest chain given to the deterministic-directional engine.
MaxDirLen == 7

\* Number of turns applied in a run of the direction-model harness.
TurnLen == 4

\* Longest chain for which every H/P assignment is generated.
AllChainLen == 5

VARIABLES
    engine,                        \* which generator generate_random_samples calls
    amino_acids,                   \* the caller's chain
    directions,                    \* the turn sequence (directional engine)
    amino_acids_copy,              \* residues still to place
    total_amino_acids,             \* local counter of initialize_grid
    grid,                          \* the lattice
    amino_acid_order,              \* the Placement Order
    pc,                            \* position in the run
    current_row, current_col,      \* directional engine: current position
    current_orientation,           \* directional engine: heading
    dir_index,                     \* directional engine: index of the for loop
    backtrack_count,               \* backtracking engine parameters
    last_amino_row, last_amino_col,
    we_just_backtracked,
    fence_limit,
    fences,
    acids_placed_since_backtrack,
    is_placed,                     \* result of place_amino_acid
    depth,                         \* number of nested place_amino_acid calls
    call_stack,                    \* (last_amino_row, last_amino_col) of each of them
    H_bonds,                       \* result of find_H_bonds
    trimmed_grid,                  \* locals of generate_random_samples
    protein_dimensions,
    amino_acids_on_grid,
    amino_acids_directions,
    hbonds,
    hratio                         \* the quotient as the fraction <<p, q>>

vars == <<engine, amino_acids, directions, amino_acids_copy, total_amino_acids,
          grid, amino_acid_order, pc, current_row, current_col,
          current_orientation, dir_index, backtrack_count, last_amino_row,
          last_amino_col, we_just_backtracked, fence_limit, fences,
          acids_placed_since_backtrack, is_placed, depth, call_stack,
          H_bonds,
          trimmed_grid, protein_dimensions, amino_acids_on_grid,
          amino_acids_directions, hbonds, hratio>>

runvars == <<engine, amino_acids, directions>>

dirvars == <<current_row, current_col, current_orientation, dir_index>>

samplevars == <<H_bonds, trimmed_grid, protein_dimensions, amino_acids_on_grid,
                amino_acids_directions, hbonds, hratio>>

btvars == <<backtrack_count, last_amino_row, last_amino_col,
            we_just_backtracked, fence_limit, fences,
            acids_placed_since_backtrack, is_placed, depth, call_stack>>

----------------------------------------------------------------------------
(* Inputs *)

\* Python's None for last_amino_row / last_amino_col (never a lattice index).
None == -1

\* Two residue patterns; a chain is a prefix of one of them.
ChainA(n) == [i \in 1..n |-> IF i % 4 \in {1, 2} THEN "H" ELSE "P"]

ChainB(n) == [i \in 1..n |-> IF i % 3 = 1 THEN "P" ELSE "H"]

Chains(n) == {ChainA(n), ChainB(n)}

Turns == {"left", "straight", "right"}

\* All sequences of length k over S.
RECURSIVE SeqsOf(_, _)
SeqsOf(S, k) ==
    IF k = 0 THEN {<<>>}
    ELSE {Append(s, x) : s \in SeqsOf(S, k - 1), x \in S}

\* Faulty variant of generate_random_directions: the second entry is drawn
\* like the later ones.
GenerateRandomDirectionsFree(n) ==
    {<<"Start">> \o t : t \in SeqsOf(Turns, IF n > 2 THEN n - 1 ELSE 1)}

\* generate_random_directions: every list the function can return.
generate_random_directions(n) ==
    {<<"Start", "straight">> \o t : t \in SeqsOf(Turns, IF n > 2 THEN n - 2 ELSE 0)}

----------------------------------------------------------------------------
(* Lattice helpers *)

\* Faulty variant of grid_size: the chain length is not doubled.
GridSizeNotDoubled == Len(amino_acids)

\* grid_size = total_amino_acids * 2
grid_size == Len(amino_acids) * 2

\* np.full((grid_size, grid_size), fill_value='')
EmptyGrid(size) == [c \in (0..(size - 1)) \X (0..(size - 1)) |-> ""]

\* Faulty variant of centre: off by one.
CentreOffByOne(size) == (size \div 2) - 1

\* first_amino_row = first_amino_col = grid_size // 2
centre(size) == size \div 2

\* Faulty variant of neighbors: the first neighbour is a diagonal cell.
NeighborsDiagonal(row, col) ==
    <<<<row - 1, col - 1>>, <<row + 1, col>>, <<row, col - 1>>, <<row, col + 1>>>>

\* neighbors = [(r - 1, c), (r + 1, c), (r, c - 1), (r, c + 1)]
neighbors(row, col) ==
    <<<<row - 1, col>>, <<row + 1, col>>, <<row, col - 1>>, <<row, col + 1>>>>

InBounds(p, size) == 0 <= p[1] /\ p[1] < size /\ 0 <= p[2] /\ p[2] < size

\* Faulty variant of valid_neighbors: the emptiness test is missing.
ValidNeighborsNoEmptyCheck(g, size, row, col) ==
    {p \in {neighbors(row, col)[k] : k \in 1..4} : InBounds(p, size)}

\* Faulty variant of valid_neighbors: the emptiness test is inverted.
ValidNeighborsInverted(g, size, row, col) ==
    {p \in {neighbors(row, col)[k] : k \in 1..4} :
        InBounds(p, size) /\ g[p] # ""}

\* valid_neighbors: the in-bounds, empty neighbours.  The code shuffles the
\* list and takes element 0, so only the set matters.
valid_neighbors(g, size, row, col) ==
    {p \in {neighbors(row, col)[k] : k \in 1..4} :
        InBounds(p, size) /\ g[p] = ""}

----------------------------------------------------------------------------
(* Initial state: the locals of a generation call right after they are set *)

Engines == {"stochastic", "directional", "backtracking"}

\* The locals of generate_random_samples before the run has returned.
InitSample ==
    /\ H_bonds = {}
    /\ trimmed_grid = [shape |-> <<0, 0>>, cell |-> EmptyGrid(0)]
    /\ protein_dimensions = <<0, 0>>
    /\ amino_acids_on_grid = 0
    /\ amino_acids_directions = <<>>
    /\ hbonds = 0
    /\ hratio = <<0, 1>>

\* Engine e called with the chain ch (and the turn sequence d).
InitRun(e, ch, d) ==
    /\ engine = e
    /\ amino_acids = ch
    /\ directions = d
    /\ amino_acids_copy = ch
    /\ total_amino_acids = Len(ch)
    /\ grid = EmptyGrid(Len(ch) * 2)
    /\ amino_acid_order = <<>>
    /\ pc = "start"
    /\ current_row = centre(Len(ch) * 2)
    /\ current_col = centre(Len(ch) * 2)
    /\ current_orientation = "right"
    /\ dir_index = 1
    /\ backtrack_count = 0
    /\ last_amino_row = None
    /\ last_amino_col = None
    /\ we_just_backtracked = 0
    /\ fence_limit = 0
    /\ fences = 0
    /\ acids_placed_since_backtrack = 0
    /\ is_placed = "unset"
    /\ depth = 0
    /\ call_stack = <<>>
    /\ InitSample

InitOf(e) ==
    \E n \in 1..(IF e = "directional" THEN MaxDirLen ELSE MaxLen) :
      \E ch \in Chains(n) :
        \E d \in (IF e = "directional" THEN generate_random_directions(n) ELSE {<<>>}) :
          InitRun(e, ch, d)

Init == \E e \in Engines : InitOf(e)

----------------------------------------------------------------------------
(* Stochastic engine: initialize_grid of E1 *)

\* Place the first amino acid at the centre.
StochasticFirst ==
    /\ engine = "stochastic"
    /\ pc = "start"
    /\ LET first_amino_row == centre(grid_size)
           first_amino_col == centre(grid_size)
           amino_acid_type == Head(amino_acids_copy)
       IN /\ amino_acids_copy' = Tail(amino_acids_copy)
          /\ grid' = [grid EXCEPT ![<<first_amino_row, first_amino_col>>] = amino_acid_type]
          /\ amino_acid_order' =
                Append(amino_acid_order, <<amino_acid_type, <<first_amino_row, first_amino_col>>>>)
          /\ total_amino_acids' = total_amino_acids - 1
          /\ pc' = IF total_amino_acids - 1 > 0 THEN "loop" ELSE "done"
    /\ UNCHANGED <<runvars, dirvars, btvars, samplevars>>

\* One iteration of the while loop that places a residue.
StochasticStep ==
    /\ engine = "stochastic"
    /\ pc = "loop"
    /\ total_amino_acids > 0
    /\ LET last == amino_acid_order[Len(amino_acid_order)][2]
           valid == valid_neighbors(grid, grid_size, last[1], last[2])
       IN /\ valid # {} /\ amino_acids_copy # <<>>
          /\ \E chosen \in valid :
               LET amino_acid_type == Head(amino_acids_copy)
               IN /\ amino_acids_copy' = Tail(amino_acids_copy)
                  /\ grid' = [grid EXCEPT ![chosen] = amino_acid_type]
                  /\ amino_acid_order' = Append(amino_acid_order, <<amino_acid_type, chosen>>)
                  /\ total_amino_acids' = total_amino_acids - 1
                  /\ pc' = IF total_amino_acids - 1 > 0 THEN "loop" ELSE "done"
    /\ UNCHANGED <<runvars, dirvars, btvars, samplevars>>

\* The iteration that finds no valid neighbour (or no residue): break.
StochasticBreak ==
    /\ engine = "stochastic"
    /\ pc = "loop"
    /\ total_amino_acids > 0
    /\ LET last == amino_acid_order[Len(amino_acid_order)][2]
           valid == valid_neighbors(grid, grid_size, last[1], last[2])
       IN ~(valid # {} /\ amino_acids_copy # <<>>)
    /\ pc' = "done"
    /\ UNCHANGED <<runvars, dirvars, btvars, samplevars, amino_acids_copy,
                   total_amino_acids, grid, amino_acid_order>>

----------------------------------------------------------------------------
(* Direction model *)

Orientations == {"up", "down", "left", "right"}

\* movement_vectors
movement_vectors ==
    [o \in Orientations |->
        CASE o = "up" -> <<-1, 0>>
          [] o = "down" -> <<1, 0>>
          [] o = "left" -> <<0, -1>>
          [] o = "right" -> <<0, 1>>]

\* Faulty variant of get_new_orientation: the results for down are swapped.
GetNewOrientationDownSwapped(orientation, turn) ==
    CASE orientation = "up" -> (IF turn = "left" THEN "left" ELSE "right")
      [] orientation = "down" -> (IF turn = "left" THEN "left" ELSE "right")
      [] orientation = "left" -> (IF turn = "left" THEN "down" ELSE "up")
      [] orientation = "right" -> (IF turn = "left" THEN "up" ELSE "down")

\* get_new_orientation: every turn other than 'left' takes the else branch.
get_new_orientation(orientation, turn) ==
    CASE orientation = "up" -> (IF turn = "left" THEN "left" ELSE "right")
      [] orientation = "down" -> (IF turn = "left" THEN "right" ELSE "left")
      [] orientation = "left" -> (IF turn = "left" THEN "down" ELSE "up")
      [] orientation = "right" -> (IF turn = "left" THEN "up" ELSE "down")

\* The loop body's orientation update: the rotation is skipped for 'straight'.
\* Faulty variant of turn_orientation: straight is not skipped.
TurnOrientationNoSkip(orientation, direction) ==
    get_new_orientation(orientation, direction)

\* if direction != 'straight': current_orientation = get_new_orientation(...)
turn_orientation(orientation, direction) ==
    IF direction # "straight" THEN get_new_orientation(orientation, direction)
    ELSE orientation

\* Faulty variant of relative_direction: the horizontal branch tests for
\* left instead of right.
RelativeDirectionHorizontalSwapped(prev_move_vector, move_vector) ==
    IF prev_move_vector \in {movement_vectors["up"], movement_vectors["down"]}
    THEN IF move_vector = movement_vectors["left"]
         THEN (IF prev_move_vector = movement_vectors["up"] THEN "left" ELSE "right")
         ELSE IF move_vector = movement_vectors["right"]
         THEN (IF prev_move_vector = movement_vectors["up"] THEN "right" ELSE "left")
         ELSE "straight"
    ELSE IF move_vector = movement_vectors["up"]
         THEN (IF prev_move_vector = movement_vectors["left"] THEN "left" ELSE "right")
         ELSE IF move_vector = movement_vectors["down"]
         THEN (IF prev_move_vector = movement_vectors["left"] THEN "right" ELSE "left")
         ELSE "straight"

\* determine_directions, the branch for i >= 2: the turn of move_vector
\* relative to prev_move_vector.
relative_direction(prev_move_vector, move_vector) ==
    IF prev_move_vector \in {movement_vectors["up"], movement_vectors["down"]}
    THEN IF move_vector = movement_vectors["left"]
         THEN (IF prev_move_vector = movement_vectors["up"] THEN "left" ELSE "right")
         ELSE IF move_vector = movement_vectors["right"]
         THEN (IF prev_move_vector = movement_vectors["up"] THEN "right" ELSE "left")
         ELSE "straight"
    ELSE IF move_vector = movement_vectors["up"]
         THEN (IF prev_move_vector = movement_vectors["right"] THEN "left" ELSE "right")
         ELSE IF move_vector = movement_vectors["down"]
         THEN (IF prev_move_vector = movement_vectors["right"] THEN "right" ELSE "left")
         ELSE "straight"

\* determine_directions(amino_acid_order)
determine_directions(order) ==
    [i \in 1..Len(order) |->
        IF i = 1 THEN "Start"
        ELSE IF i = 2 THEN "straight"
        ELSE relative_direction(
                <<order[i - 1][2][1] - order[i - 2][2][1],
                  order[i - 1][2][2] - order[i - 2][2][2]>>,
                <<order[i][2][1] - order[i - 1][2][1],
                  order[i][2][2] - order[i - 1][2][2]>>)]

----------------------------------------------------------------------------
(* Deterministic-directional engine: initialize_grid_directional *)

\* pc after an iteration that did not break: 'if not amino_acids_copy: break',
\* or the for loop has used up the directions.
DirAfter(copy) ==
    IF copy = <<>> \/ dir_index + 1 > Len(directions) THEN "done" ELSE "loop"

\* Iteration for the direction 'Start': place the first amino acid.
DirStart ==
    /\ engine = "directional"
    /\ pc \in {"start", "loop"}
    /\ dir_index <= Len(directions)
    /\ directions[dir_index] = "Start"
    /\ LET amino_acid_type == Head(amino_acids_copy)
       IN /\ amino_acids_copy' = Tail(amino_acids_copy)
          /\ grid' = [grid EXCEPT ![<<current_row, current_col>>] = amino_acid_type]
          /\ amino_acid_order' =
                Append(amino_acid_order, <<amino_acid_type, <<current_row, current_col>>>>)
          /\ pc' = DirAfter(Tail(amino_acids_copy))
    /\ dir_index' = dir_index + 1
    /\ UNCHANGED <<runvars, total_amino_acids, current_row, current_col,
                   current_orientation, btvars, samplevars>>

\* Iteration for a turn whose target cell is on the grid and empty.
DirPlace ==
    /\ engine = "directional"
    /\ pc \in {"start", "loop"}
    /\ dir_index <= Len(directions)
    /\ directions[dir_index] # "Start"
    /\ LET orientation == turn_orientation(current_orientation, directions[dir_index])
           move == movement_vectors[orientation]
           next == <<current_row + move[1], current_col + move[2]>>
           amino_acid_type == Head(amino_acids_copy)
       IN /\ InBounds(next, grid_size) /\ grid[next] = ""
          /\ current_orientation' = orientation
          /\ amino_acids_copy' = Tail(amino_acids_copy)
          /\ grid' = [grid EXCEPT ![next] = amino_acid_type]
          /\ amino_acid_order' = Append(amino_acid_order, <<amino_acid_type, next>>)
          /\ current_row' = next[1]
          /\ current_col' = next[2]
          /\ pc' = DirAfter(Tail(amino_acids_copy))
    /\ dir_index' = dir_index + 1
    /\ UNCHANGED <<runvars, total_amino_acids, btvars, samplevars>>

\* Iteration for a turn whose target cell is occupied or off the grid: break.
DirBreak ==
    /\ engine = "directional"
    /\ pc \in {"start", "loop"}
    /\ dir_index <= Len(directions)
    /\ directions[dir_index] # "Start"
    /\ LET orientation == turn_orientation(current_orientation, directions[dir_index])
           move == movement_vectors[orientation]
           next == <<current_row + move[1], current_col + move[2]>>
       IN /\ ~(InBounds(next, grid_size) /\ grid[next] = "")
          /\ current_orientation' = orientation
    /\ pc' = "done"
    /\ UNCHANGED <<runvars, total_amino_acids, amino_acids_copy, grid,
                   amino_acid_order, current_row, current_col, dir_index,
                   btvars, samplevars>>

----------------------------------------------------------------------------
(* Backtracking engine: place_amino_acid, one action per call *)

\* determine_direction(prev_row, prev_col, current_row, current_col): the
\* cardinal direction of the move, None if it is no unit move.
determine_direction(prev_row, prev_col, cur_row, cur_col) ==
    LET current_move_vector == <<cur_row - prev_row, cur_col - prev_col>>
    IN IF \E o \in Orientations : movement_vectors[o] = current_move_vector
       THEN CHOOSE o \in Orientations : movement_vectors[o] = current_move_vector
       ELSE None

\* get_deterministic_neighbors(last_row, last_col, relative_direction):
\* the list [left, middle, right] relative to the heading.
get_deterministic_neighbors(last_row, last_col, heading) ==
    IF heading = "down"
    THEN <<<<last_row, last_col + 1>>, <<last_row + 1, last_col>>, <<last_row, last_col - 1>>>>
    ELSE IF heading = "up"
    THEN <<<<last_row, last_col - 1>>, <<last_row - 1, last_col>>, <<last_row, last_col + 1>>>>
    ELSE IF heading = "left"
    THEN <<<<last_row + 1, last_col>>, <<last_row, last_col - 1>>, <<last_row - 1, last_col>>>>
    ELSE <<<<last_row - 1, last_col>>, <<last_row, last_col + 1>>, <<last_row + 1, last_col>>>>

\* Faulty variant of pop: the whole order is cleared.
PopAll(order) == <<>>

\* amino_acid_order.pop()
pop(order) == SubSeq(order, 1, Len(order) - 1)

\* Faulty variant of remove_fences: every cell is emptied.
RemoveFencesAll(g) == [c \in DOMAIN g |-> ""]

\* Faulty variant of remove_fences: the test is inverted, the empty cells
\* become 'F'.
RemoveFencesInverted(g) == [c \in DOMAIN g |-> IF g[c] = "" THEN "F" ELSE g[c]]

\* Remove all fences: every 'F' cell becomes ''.
remove_fences(g) == [c \in DOMAIN g |-> IF g[c] = "F" THEN "" ELSE g[c]]

\* Base case: no amino acids left.
BTBaseCase ==
    /\ engine = "backtracking"
    /\ pc \in {"start", "call"}
    /\ amino_acids_copy = <<>>
    /\ is_placed' = "True"
    /\ depth' = depth + 1
    /\ call_stack' = Append(call_stack, <<last_amino_row, last_amino_col>>)
    /\ pc' = "done"
    /\ UNCHANGED <<runvars, amino_acids_copy, total_amino_acids, grid,
                   amino_acid_order, dirvars, backtrack_count, last_amino_row,
                   last_amino_col, we_just_backtracked, fence_limit, fences,
                   acids_placed_since_backtrack, samplevars>>

\* Faulty variant of BTFirst: the engine pops from the caller's list
\* instead of a copy of it.
BTFirstAliased ==
    /\ engine = "backtracking"
    /\ pc \in {"start", "call"}
    /\ amino_acids_copy # <<>>
    /\ last_amino_row = None \/ last_amino_col = None
    /\ amino_acids_copy' = Tail(amino_acids_copy)
    /\ amino_acids' = Tail(amino_acids_copy)
    /\ grid' = [grid EXCEPT ![<<centre(grid_size), centre(grid_size)>>] =
                                Head(amino_acids_copy)]
    /\ amino_acid_order' =
          Append(amino_acid_order,
                 <<Head(amino_acids_copy), <<centre(grid_size), centre(grid_size)>>>>)
    /\ last_amino_row' = centre(grid_size)
    /\ last_amino_col' = centre(grid_size)
    /\ depth' = depth + 1
    /\ call_stack' = Append(call_stack, <<last_amino_row, last_amino_col>>)
    /\ pc' = "call"
    /\ UNCHANGED <<engine, directions, total_amino_acids, dirvars, backtrack_count,
                   we_just_backtracked, fence_limit, fences,
                   acids_placed_since_backtrack, is_placed, samplevars>>

\* The call for the first amino acid.
BTFirst ==
    /\ engine = "backtracking"
    /\ pc \in {"start", "call"}
    /\ amino_acids_copy # <<>>
    /\ last_amino_row = None \/ last_amino_col = None
    /\ LET first_amino_row == centre(grid_size)
           first_amino_col == centre(grid_size)
           amino_acid_type == Head(amino_acids_copy)
       IN /\ amino_acids_copy' = Tail(amino_acids_copy)
          /\ grid' = [grid EXCEPT ![<<first_amino_row, first_amino_col>>] = amino_acid_type]
          /\ amino_acid_order' =
                Append(amino_acid_order, <<amino_acid_type, <<first_amino_row, first_amino_col>>>>)
          /\ last_amino_row' = first_amino_row
          /\ last_amino_col' = first_amino_col
    /\ depth' = depth + 1
    /\ call_stack' = Append(call_stack, <<last_amino_row, last_amino_col>>)
    /\ pc' = "call"
    /\ UNCHANGED <<runvars, total_amino_acids, dirvars, backtrack_count,
                   we_just_backtracked, fence_limit, fences,
                   acids_placed_since_backtrack, is_placed, samplevars>>

\* A call that finds a valid neighbour: place there and recurse.
BTForward ==
    /\ engine = "backtracking"
    /\ pc \in {"start", "call"}
    /\ amino_acids_copy # <<>>
    /\ ~(last_amino_row = None \/ last_amino_col = None)
    /\ LET valid == valid_neighbors(grid, grid_size, last_amino_row, last_amino_col)
           amino_acid_type == Head(amino_acids_copy)
       IN /\ Cardinality(valid) > 0
          /\ \E chosen \in valid :
               /\ amino_acids_copy' = Tail(amino_acids_copy)
               /\ grid' = [grid EXCEPT ![chosen] = amino_acid_type]
               /\ amino_acid_order' = Append(amino_acid_order, <<amino_acid_type, chosen>>)
               /\ last_amino_row' = chosen[1]
               /\ last_amino_col' = chosen[2]
    /\ acids_placed_since_backtrack' = acids_placed_since_backtrack + 1
    /\ we_just_backtracked' = 0
    /\ depth' = depth + 1
    /\ call_stack' = Append(call_stack, <<last_amino_row, last_amino_col>>)
    /\ pc' = "call"
    /\ UNCHANGED <<runvars, total_amino_acids, dirvars, backtrack_count,
                   fence_limit, fences, is_placed, samplevars>>

\* A call that finds no valid neighbour: backtracking logic.
BTBacktrack ==
    /\ engine = "backtracking"
    /\ pc \in {"start", "call"}
    /\ amino_acids_copy # <<>>
    /\ ~(last_amino_row = None \/ last_amino_col = None)
    /\ LET valid == valid_neighbors(grid, grid_size, last_amino_row, last_amino_col)
           amino_acid_type == Head(amino_acids_copy)
           popped == Tail(amino_acids_copy)
           cleared == [grid EXCEPT ![<<last_amino_row, last_amino_col>>] = ""]
           order == pop(amino_acid_order)
           reset == acids_placed_since_backtrack > fences
       IN /\ ~(Cardinality(valid) > 0)
          /\ backtrack_count' = backtrack_count + 1
          /\ we_just_backtracked' = 1
          /\ fence_limit' = fence_limit + 1
          /\ amino_acids_copy' = <<amino_acid_type>> \o popped
          /\ amino_acid_order' = order
          /\ grid' = IF reset THEN remove_fences(cleared) ELSE cleared
          /\ fences' = IF reset THEN 0 ELSE fences
          /\ acids_placed_since_backtrack' = 0
          /\ IF order = <<>>
             THEN /\ is_placed' = "False"
                  /\ pc' = "done"
                  /\ UNCHANGED <<last_amino_row, last_amino_col>>
             ELSE /\ last_amino_row' = order[Len(order)][2][1]
                  /\ last_amino_col' = order[Len(order)][2][2]
                  /\ pc' = "call"
                  /\ UNCHANGED is_placed
    /\ depth' = depth + 1
    /\ call_stack' = Append(call_stack, <<last_amino_row, last_amino_col>>)
    /\ UNCHANGED <<runvars, total_amino_acids, dirvars, samplevars>>

----------------------------------------------------------------------------
(* Contact analysis, run by generate_random_samples on the returned pair *)

\* Faulty variant of find_H_pairs_order: no covalent pair is found.
FindHPairsOrderNone(order) == {}

\* Faulty variant of find_H_pairs_grid: the diagonal cells count as neighbours.
FindHPairsGridDiagonal(g, size) ==
    UNION {{{<<row, col>>, nb} :
              nb \in {x \in {<<row + dr, col + dc>> : dr \in {-1, 0, 1}, dc \in {-1, 0, 1}} :
                        x # <<row, col>> /\ InBounds(x, size) /\ g[x] = "H"}} :
           <<row, col>> \in {c \in DOMAIN g : g[c] = "H"}}

\* find_H_pairs_grid(grid)
find_H_pairs_grid(g, size) ==
    UNION {{{<<row, col>>, nb} :
              nb \in {x \in {neighbors(row, col)[k] : k \in 1..4} :
                        InBounds(x, size) /\ g[x] = "H"}} :
           <<row, col>> \in {c \in DOMAIN g : g[c] = "H"}}

\* find_H_pairs_order(amino_acid_order)
find_H_pairs_order(order) ==
    {{order[i][2], order[i + 1][2]} :
        i \in {k \in 1..(Len(order) - 1) : order[k][1] = "H" /\ order[k + 1][1] = "H"}}

\* Faulty variant of find_H_bonds: the consecutive pairs are not removed.
FindHBondsNoSubtract(g, size, order) == find_H_pairs_grid(g, size)

\* find_H_bonds(grid, amino_acid_order)
find_H_bonds(g, size, order) == find_H_pairs_grid(g, size) \ find_H_pairs_order(order)

\* grid != '': the boolean array, as the set of the cells where it is True
NonEmpty(g) == {d \in DOMAIN g : g[d] # ""}

\* np.any(mask, axis=1), as the set of row indices
non_empty_rows(mask) == {c[1] : c \in mask}

\* np.any(mask, axis=0), as the set of column indices
non_empty_columns(mask) == {c[2] : c \in mask}

\* The indices a boolean mask selects, in increasing order.
Selected(S) ==
    [i \in 0..(Cardinality(S) - 1) |->
        CHOOSE x \in S : Cardinality({y \in S : y < x}) = i]

\* Faulty variant of trim_empty_rows_and_columns: only the rows are trimmed.
TrimRowsOnly(g, size) ==
    LET rows == Selected(non_empty_rows(NonEmpty(g)))
    IN [shape |-> <<Cardinality(DOMAIN rows), size>>,
        cell  |-> [ij \in (DOMAIN rows) \X (0..(size - 1)) |->
                      g[<<rows[ij[1]], ij[2]>>]]]

\* trim_empty_rows_and_columns(grid): grid[non_empty_rows][:, non_empty_columns],
\* an array with its shape and its cells.
trim_empty_rows_and_columns(g, size) ==
    LET mask == NonEmpty(g)
        rows == Selected(non_empty_rows(mask))
        cols == Selected(non_empty_columns(mask))
    IN [shape |-> <<Cardinality(DOMAIN rows), Cardinality(DOMAIN cols)>>,
        cell  |-> [ij \in (DOMAIN rows) \X (DOMAIN cols) |->
                      g[<<rows[ij[1]], cols[ij[2]]>>]]]

\* np.count_nonzero(initial_grid != '')
count_nonzero(mask) == Cardinality(mask)

RECURSIVE GCD(_, _)
GCD(a, b) == IF b = 0 THEN a ELSE GCD(b, a % b)

\* Faulty variant of divide: floor division.
FloorDivide(a, b) == <<a \div b, 1>>

\* a / b for integers a >= 0, b > 0: the quotient as a fraction in lowest
\* terms (the float the code gets is zero, or positive, exactly when this
\* fraction is).
divide(a, b) == <<a \div GCD(a, b), b \div GCD(a, b)>>

\* Faulty variant of Analyze: the analysis consumes the Placement Order.
AnalyzeConsuming ==
    /\ engine \in Engines
    /\ pc = "done"
    /\ H_bonds' = find_H_bonds(grid, grid_size, amino_acid_order)
    /\ amino_acid_order' = <<>>
    /\ pc' = "analyzed"
    /\ UNCHANGED <<runvars, amino_acids_copy, total_amino_acids, grid,
                   dirvars, btvars, trimmed_grid,
                   protein_dimensions, amino_acids_on_grid,
                   amino_acids_directions, hbonds, hratio>>

\* H_bonds = find_H_bonds(initial_grid, amino_acid_order)
Analyze ==
    /\ engine \in Engines
    /\ pc = "done"
    /\ H_bonds' = find_H_bonds(grid, grid_size, amino_acid_order)
    /\ pc' = "analyzed"
    /\ UNCHANGED <<runvars, amino_acids_copy, total_amino_acids, grid,
                   amino_acid_order, dirvars, btvars, trimmed_grid,
                   protein_dimensions, amino_acids_on_grid,
                   amino_acids_directions, hbonds, hratio>>

\* The body of the loop of generate_random_samples after the engine has
\* returned: trimmed grid, dimensions, residues on the grid, directions,
\* bond count and H-ratio.  hbonds / amino_acids_on_grid raises
\* ZeroDivisionError for a zero divisor.
GenerateSample ==
    /\ engine \in Engines
    /\ pc = "done"
    /\ trimmed_grid' = trim_empty_rows_and_columns(grid, grid_size)
    /\ protein_dimensions' = trimmed_grid'.shape
    /\ amino_acids_on_grid' = count_nonzero(NonEmpty(grid))
    /\ amino_acids_directions' = determine_directions(amino_acid_order)
    /\ hbonds' = Cardinality(find_H_bonds(grid, grid_size, amino_acid_order))
    /\ IF amino_acids_on_grid' = 0
       THEN /\ pc' = "ZeroDivisionError"
            /\ UNCHANGED hratio
       ELSE /\ pc' = "sampled"
            /\ hratio' = divide(hbonds', amino_acids_on_grid')
    /\ UNCHANGED <<runvars, amino_acids_copy, total_amino_acids, grid,
                   amino_acid_order, dirvars, btvars, H_bonds>>

----------------------------------------------------------------------------
(* Direction-model harness: a walker that starts with a move in direction  *)
(* O and applies a list of turns, either with get_new_orientation itself   *)
(* or with the loop body's update (turn_orientation).                      *)

DirectionModels == {"get_new_orientation", "turn_orientation"}

InitTurn ==
    \E m \in DirectionModels, o \in Orientations, d \in SeqsOf(Turns, TurnLen) :
      /\ engine = m
      /\ amino_acids = <<>>
      /\ directions = d
      /\ amino_acids_copy = <<>>
      /\ total_amino_acids = 0
      /\ grid = EmptyGrid(0)
      /\ amino_acid_order = <<<<"P", <<0, 0>>>>, <<"P", movement_vectors[o]>>>>
      /\ pc = "turn"
      /\ current_row = movement_vectors[o][1]
      /\ current_col = movement_vectors[o][2]
      /\ current_orientation = o
      /\ dir_index = 1
      /\ backtrack_count = 0
      /\ last_amino_row = None
      /\ last_amino_col = None
      /\ we_just_backtracked = 0
      /\ fence_limit = 0
      /\ fences = 0
      /\ acids_placed_since_backtrack = 0
      /\ is_placed = "unset"
      /\ depth = 0
      /\ call_stack = <<>>
      /\ InitSample

\* The walker's move in the orientation new_orientation.
TurnMove(new_orientation) ==
    /\ pc = "turn"
    /\ dir_index <= Len(directions)
    /\ LET move == movement_vectors[new_orientation]
           next == <<current_row + move[1], current_col + move[2]>>
       IN /\ current_orientation' = new_orientation
          /\ current_row' = next[1]
          /\ current_col' = next[2]
          /\ amino_acid_order' = Append(amino_acid_order, <<"P", next>>)
    /\ dir_index' = dir_index + 1
    /\ UNCHANGED <<runvars, amino_acids_copy, total_amino_acids, grid, pc,
                   btvars, samplevars>>

\* get_new_orientation applied to the turn, whatever the turn is.
ApplyGetNewOrientation ==
    /\ engine = "get_new_orientation"
    /\ dir_index <= Len(directions)
    /\ TurnMove(get_new_orientation(current_orientation, directions[dir_index]))

\* The update of the engine's loop body applied to the turn.
ApplyTurnOrientation ==
    /\ engine = "turn_orientation"
    /\ dir_index <= Len(directions)
    /\ TurnMove(turn_orientation(current_orientation, directions[dir_index]))

NextTurn == ApplyGetNewOrientation \/ ApplyTurnOrientation

SpecTurn == InitTurn /\ [][NextTurn]_vars

----------------------------------------------------------------------------
(* Specifications *)

Next ==
    \/ StochasticFirst
    \/ StochasticStep
    \/ StochasticBreak
    \/ DirStart
    \/ DirPlace
    \/ DirBreak
    \/ BTFirst
    \/ BTForward
    \/ BTBacktrack
    \/ BTBaseCase
    \/ Analyze

Spec == Init /\ [][Next]_vars

\* The stochastic and the directional engine on every chain of H and P up
\* to the length AllChainLen.
AllChains(n) == SeqsOf({"H", "P"}, n)

InitAll ==
    \E e \in {"stochastic", "directional"} :
      \E n \in 1..AllChainLen :
        \E ch \in AllChains(n) :
          \E d \in (IF e = "directional" THEN generate_random_directions(n) ELSE {<<>>}) :
            InitRun(e, ch, d)

NextAll ==
    \/ StochasticFirst
    \/ StochasticStep
    \/ DirStart
    \/ DirPlace
    \/ DirBreak
    \/ Analyze
    \/ GenerateSample

SpecAll == InitAll /\ [][NextAll]_vars

\* generate_random_samples on the three engines: the backtracking engine on
\* chains long enough to backtrack, the other two as in SpecAll.
InitSampling == InitAll \/ InitOf("backtracking")

NextSample ==
    \/ StochasticFirst
    \/ StochasticStep
    \/ DirStart
    \/ DirPlace
    \/ DirBreak
    \/ BTFirst
    \/ BTForward
    \/ BTBacktrack
    \/ BTBaseCase
    \/ GenerateSample

SpecSample == InitSampling /\ [][NextSample]_vars

\* The backtracking engine alone; a call that is made is executed.
InitBT == InitOf("backtracking")

NextBT == BTFirst \/ BTForward \/ BTBacktrack \/ BTBaseCase

LiveSpecBT == InitBT /\ [][NextBT]_vars /\ WF_vars(NextBT)

\* The backtracking engine alone, without the scheduling assumption.
SpecBT == InitBT /\ [][NextBT]_vars

\* Longest chain on which a second run is started.
RunChainLen == 5

\* Faulty variant of NextRun: the lattice of the previous run is used again.
NextRunSharedGrid ==
    /\ engine \in Engines
    /\ pc \in {"done", "analyzed"}
    /\ Len(amino_acids) <= RunChainLen
    /\ amino_acids_copy' = amino_acids
    /\ total_amino_acids' = Len(amino_acids)
    /\ grid' = grid
    /\ amino_acid_order' = <<>>
    /\ pc' = "start"
    /\ current_row' = centre(Len(amino_acids) * 2)
    /\ current_col' = centre(Len(amino_acids) * 2)
    /\ current_orientation' = "right"
    /\ dir_index' = 1
    /\ backtrack_count' = 0
    /\ last_amino_row' = None
    /\ last_amino_col' = None
    /\ we_just_backtracked' = 0
    /\ fence_limit' = 0
    /\ fences' = 0
    /\ acids_placed_since_backtrack' = 0
    /\ is_placed' = "unset"
    /\ depth' = 0
    /\ call_stack' = <<>>
    /\ UNCHANGED <<runvars, samplevars>>

\* The engine called again on the caller's chain (and turn sequence) after
\* a run has returned: the call makes its own copy of the chain, a new
\* grid and a new order, and the arguments of place_amino_acid get their
\* defaults.  What the caller computed from the previous run is kept.
NextRun ==
    /\ engine \in Engines
    /\ pc \in {"done", "analyzed"}
    /\ Len(amino_acids) <= RunChainLen
    /\ amino_acids_copy' = amino_acids
    /\ total_amino_acids' = Len(amino_acids)
    /\ grid' = EmptyGrid(Len(amino_acids) * 2)
    /\ amino_acid_order' = <<>>
    /\ pc' = "start"
    /\ current_row' = centre(Len(amino_acids) * 2)
    /\ current_col' = centre(Len(amino_acids) * 2)
    /\ current_orientation' = "right"
    /\ dir_index' = 1
    /\ backtrack_count' = 0
    /\ last_amino_row' = None
    /\ last_amino_col' = None
    /\ we_just_backtracked' = 0
    /\ fence_limit' = 0
    /\ fences' = 0
    /\ acids_placed_since_backtrack' = 0
    /\ is_placed' = "unset"
    /\ depth' = 0
    /\ call_stack' = <<>>
    /\ UNCHANGED <<runvars, samplevars>>

\* The first run: both residue patterns on the chains a second run is
\* started on, one pattern on the longer chains.
InitRuns ==
    \E e \in Engines :
      \E n \in 1..(IF e = "directional" THEN MaxDirLen ELSE MaxLen) :
        \E ch \in (IF n <= RunChainLen THEN Chains(n) ELSE {ChainA(n)}) :
          \E d \in (IF e = "directional" THEN generate_random_directions(n) ELSE {<<>>}) :
            InitRun(e, ch, d)

\* Runs of the three engines one after the other on the same chain.
NextRuns == Next \/ NextRun

SpecRuns == InitRuns /\ [][NextRuns]_vars

----------------------------------------------------------------------------
(* Properties *)

Manhattan(p, q) ==
    (IF p[1] >= q[1] THEN p[1] - q[1] ELSE q[1] - p[1])
    + (IF p[2] >= q[2] THEN p[2] - q[2] ELSE q[2] - p[2])

\* The four lattice neighbours of p that lie on the lattice.
Adjacent(p) ==
    {q \in {<<p[1] - 1, p[2]>>, <<p[1] + 1, p[2]>>, <<p[1], p[2] - 1>>, <<p[1], p[2] + 1>>} :
        q \in DOMAIN grid}

Generating == engine \in Engines

Returned == pc \in {"done", "analyzed", "sampled"}

NoSharedPosition ==
    \A i, j \in 1..Len(amino_acid_order) :
        i # j => amino_acid_order[i][2] # amino_acid_order[j][2]

\* A step that adds a placement writes it into a cell that was empty, and no
\* non-empty cell changes to another residue.
WritesOnlyEmpty ==
    /\ Len(amino_acid_order') > Len(amino_acid_order)
          => grid[amino_acid_order'[Len(amino_acid_order')][2]] = ""
    /\ \/ grid' = grid
       \/ /\ Len(amino_acid_order') > Len(amino_acid_order)
          /\ LET c == amino_acid_order'[Len(amino_acid_order')][2]
             IN grid[c] = "" /\ grid' = [grid EXCEPT ![c] = grid'[c]]
       \/ \A c \in DOMAIN grid :
             (grid'[c] # grid[c] /\ grid'[c] # "") => grid[c] = ""

\* C1: self-avoidance.  In every state of every engine (also mid-run and
\* right after a backtrack) no two placements share a position, and every
\* step writes residues only into cells that were empty.
C1_SelfAvoidance ==
    /\ [](Generating => NoSharedPosition)
    /\ [][Generating => WritesOnlyEmpty]_vars

\* A backtrack has just popped a placement of a walk of at least 7 cells.
C1_Witness ==
    /\ engine = "backtracking"
    /\ pc = "call"
    /\ we_just_backtracked = 1
    /\ Len(amino_acid_order) >= 7

\* C2: chain connectivity.  In every state of every engine each placement
\* after the first is at Manhattan distance 1 from its predecessor; this
\* also holds for the placements that remain after a backtrack.
C2_Connectivity ==
    Generating =>
        \A i \in 2..Len(amino_acid_order) :
            Manhattan(amino_acid_order[i][2], amino_acid_order[i - 1][2]) = 1

\* The backtracking engine has placed again after a backtrack.
C2_Witness ==
    /\ engine = "backtracking"
    /\ backtrack_count > 0
    /\ we_just_backtracked = 0
    /\ Len(amino_acid_order) >= 2

FirstAtCentre ==
    Len(amino_acid_order) >= 1 =>
        /\ amino_acid_order[1] =
              <<amino_acids[1], <<Len(amino_acids), Len(amino_acids)>>>>
        /\ amino_acids = <<"H", "H", "P", "P", "H">>
              => amino_acid_order[1][2] = <<5, 5>>

FirstStays ==
    Len(amino_acid_order) >= 1 =>
        /\ Len(amino_acid_order') >= 1
        /\ amino_acid_order'[1] = amino_acid_order[1]

C4_LengthRange ==
    (Generating /\ Returned) =>
        /\ 1 <= Len(amino_acid_order)
        /\ Len(amino_acid_order) <= Len(amino_acids)

\* The directional engine has returned a partial order.
C4_Witness ==
    /\ engine = "directional"
    /\ pc = "done"
    /\ Len(amino_acid_order) >= 1
    /\ Len(amino_acid_order) < Len(amino_acids)

\* C5: for every chain and every sequence of neighbour choices the
\* backtracking engine returns, and it returns success (True), never the
\* failure outcome.
C5_BTSucceeds ==
    /\ <>(pc = "done")
    /\ [](pc = "done" => is_placed = "True")

\* A run that backtracked has returned True.
C5_Witness ==
    /\ engine = "backtracking"
    /\ pc = "done"
    /\ is_placed = "True"
    /\ backtrack_count > 0

\* C6 (as claimed): whenever the backtracking engine returns success the
\* Placement Order has exactly n entries and entry i carries residue i of
\* the chain, however many backtracks happened.
C6_FullOrderOnSuccess ==
    (engine = "backtracking" /\ pc = "done" /\ is_placed = "True") =>
        /\ Len(amino_acid_order) = Len(amino_acids)
        /\ \A i \in 1..Len(amino_acid_order) :
              amino_acid_order[i][1] = amino_acids[i]

LastPosition == amino_acid_order[Len(amino_acid_order)][2]

\* The empty lattice neighbours of the last placement.
FreeAdjacent == {q \in Adjacent(LastPosition) : grid[q] = ""}

\* An iteration of the stochastic loop places the next residue on an empty
\* neighbour of the last placement if there is one, and ends the run
\* without placing otherwise.
StochasticIteration ==
    (engine = "stochastic" /\ pc = "loop") =>
        IF FreeAdjacent # {}
        THEN \E q \in FreeAdjacent :
                /\ amino_acid_order' =
                      Append(amino_acid_order, <<amino_acids[Len(amino_acid_order) + 1], q>>)
                /\ grid' = [grid EXCEPT ![q] = amino_acids[Len(amino_acid_order) + 1]]
        ELSE /\ pc' = "done"
             /\ amino_acid_order' = amino_acid_order
             /\ grid' = grid

\* A returned short order ends in a cell whose four neighbours are all on
\* the lattice and non-empty.
ShortOnlyIfSurrounded ==
    (engine = "stochastic" /\ Returned
        /\ Len(amino_acid_order) < Len(amino_acids)) =>
        /\ Cardinality(Adjacent(LastPosition)) = 4
        /\ FreeAdjacent = {}

NoPlacementAfterReturn ==
    Returned => (amino_acid_order' = amino_acid_order /\ grid' = grid)

\* C7: the stochastic engine places the next residue on an empty neighbour
\* of the last placement whenever one exists; a run ends with fewer than n
\* placements only where all four neighbours of the last placed cell are
\* non-empty, and nothing is placed after that.
C7_StochasticBreak ==
    /\ [][StochasticIteration]_vars
    /\ [](ShortOnlyIfSurrounded)
    /\ [][engine = "stochastic" => NoPlacementAfterReturn]_vars

\* The stochastic engine has stopped at a dead end.
C7_Witness ==
    /\ engine = "stochastic"
    /\ pc = "done"
    /\ Len(amino_acid_order) < Len(amino_acids)
    /\ FreeAdjacent = {}

\* The walk the turn sequence d prescribes on an unobstructed lattice:
\* headings in clockwise order, a right turn is the next one, a left turn
\* the one before.
Clockwise == <<"up", "right", "down", "left">>

Rotate(o, t) ==
    LET k == CHOOSE x \in 1..4 : Clockwise[x] = o
        by == IF t = "right" THEN 1 ELSE IF t = "left" THEN 3 ELSE 0
    IN Clockwise[((k - 1 + by) % 4) + 1]

RECURSIVE HeadingAt(_, _)
HeadingAt(d, k) ==
    IF k <= 1 THEN "right" ELSE Rotate(HeadingAt(d, k - 1), d[k])

RECURSIVE TargetAt(_, _, _)
TargetAt(d, k, n) ==
    IF k <= 1 THEN <<n, n>>
    ELSE LET from == TargetAt(d, k - 1, n)
             h == HeadingAt(d, k)
         IN <<from[1] + (IF h = "down" THEN 1 ELSE IF h = "up" THEN -1 ELSE 0),
              from[2] + (IF h = "right" THEN 1 ELSE IF h = "left" THEN -1 ELSE 0)>>

\* Index of the first turn whose target is occupied or off the lattice
\* (n + 1 if there is none).
FirstBlocked(d, n) ==
    LET blocked == {k \in 2..n :
                      \/ \E j \in 1..(k - 1) : TargetAt(d, j, n) = TargetAt(d, k, n)
                      \/ TargetAt(d, k, n) \notin ((0..(2 * n - 1)) \X (0..(2 * n - 1)))}
    IN IF blocked = {} THEN n + 1
       ELSE CHOOSE k \in blocked : \A m \in blocked : k <= m

StopsAtFirstBlocked ==
    (engine = "directional" /\ Returned) =>
        LET n == Len(amino_acids)
        IN /\ Len(amino_acid_order) = FirstBlocked(directions, n) - 1
           /\ \A i \in 1..Len(amino_acid_order) :
                 amino_acid_order[i] = <<amino_acids[i], TargetAt(directions, i, n)>>

\* C8: the directional engine stops at the first turn whose target cell is
\* occupied or off the lattice; the returned order is exactly the residues
\* placed before that turn, in chain order, and nothing is placed for a
\* later turn.
C8_DirectionalStop ==
    /\ [](StopsAtFirstBlocked)
    /\ [][engine = "directional" => NoPlacementAfterReturn]_vars

\* The engine stopped although the target of the turn after the blocked one
\* would have been an empty cell.
C8_Witness ==
    /\ engine = "directional"
    /\ pc = "done"
    /\ Len(amino_acid_order) + 2 <= Len(amino_acids)
    /\ \A i \in 1..Len(amino_acid_order) :
          amino_acid_order[i][2] #
             TargetAt(directions, Len(amino_acid_order) + 2, Len(amino_acids))

\* The turns determine_directions reports for the walker's moves: entry i + 2
\* of its result classifies the move made for turn i.
Recovered(i) == determine_directions(amino_acid_order)[i + 2]

Contacts ==
    {ij \in (1..Len(amino_acid_order)) \X (1..Len(amino_acid_order)) :
        /\ ij[2] - ij[1] >= 2
        /\ amino_acid_order[ij[1]][1] = "H"
        /\ amino_acid_order[ij[2]][1] = "H"
        /\ Manhattan(amino_acid_order[ij[1]][2], amino_acid_order[ij[2]][2]) = 1}

\* C10: len(find_H_bonds(grid, order)) is the number of unordered pairs of
\* placements {i, j}, |i - j| >= 2, both H, at Manhattan distance 1; the
\* bonds are exactly the position pairs of these placements, so consecutive
\* pairs are never counted and no pair is counted twice.
C10_HBonds ==
    (Generating /\ pc = "analyzed") =>
        /\ Cardinality(H_bonds) = Cardinality(Contacts)
        /\ H_bonds = {{amino_acid_order[ij[1]][2], amino_acid_order[ij[2]][2]} :
                          ij \in Contacts}

\* A conformation with a contact and with two consecutive H residues.
C10_Witness ==
    /\ Generating
    /\ pc = "analyzed"
    /\ H_bonds # {}
    /\ \E i \in 1..(Len(amino_acid_order) - 1) :
          amino_acid_order[i][1] = "H" /\ amino_acid_order[i + 1][1] = "H"

\* The positions of the placements.
Positions == {amino_acid_order[i][2] : i \in 1..Len(amino_acid_order)}

\* The conformation is a 4-residue chain on a 2x2 block of cells holding
\* H H in its upper and H P in its lower row.
BlockHHHP ==
    /\ Len(amino_acids) = 4
    /\ Len(amino_acid_order) = 4
    /\ \E p \in Positions :
         /\ Positions = {p, <<p[1], p[2] + 1>>, <<p[1] + 1, p[2]>>, <<p[1] + 1, p[2] + 1>>}
         /\ grid[p] = "H"
         /\ grid[<<p[1], p[2] + 1>>] = "H"
         /\ grid[<<p[1] + 1, p[2]>>] = "H"
         /\ grid[<<p[1] + 1, p[2] + 1>>] = "P"

\* C11 as stated: find_H_bonds returns exactly 1 bond for the block
\* H H / H P, whichever placement order through the four cells produced it.
C11_BlockOneBond ==
    (pc = "analyzed" /\ BlockHHHP) => Cardinality(H_bonds) = 1

\* C11 amended: for the block H H / H P find_H_bonds returns exactly 1 bond
\* when the P residue is inside the chain (both ends of the placement order
\* are H: the two H neighbours of the corner H, one covalent, one not), and
\* no bond when the P residue is the first or the last of the order (both
\* H-H edges of the block are then consecutive in the order); the diagonal
\* H cells are never a bond.
C11_BlockBond ==
    (pc = "analyzed" /\ BlockHHHP) =>
        /\ Cardinality(H_bonds) =
              (IF amino_acid_order[1][1] = "H" /\ amino_acid_order[4][1] = "H"
               THEN 1 ELSE 0)
        /\ \A b \in H_bonds : \A p, q \in b : Manhattan(p, q) <= 1

C11_Witness ==
    /\ pc = "analyzed"
    /\ BlockHHHP
    /\ amino_acids = <<"H", "P", "H", "H">>
    /\ Cardinality(H_bonds) = 1

\* All placements lie on one row or on one column of the lattice.
StraightLine ==
    \/ \A p, q \in Positions : p[1] = q[1]
    \/ \A p, q \in Positions : p[2] = q[2]

\* C12: for a conformation whose placements lie on one straight lattice
\* line, find_H_bonds returns the empty set whatever the H/P assignment.
C12_StraightNoBonds ==
    (pc = "analyzed" /\ StraightLine) => H_bonds = {}

C12_Witness ==
    /\ pc = "analyzed"
    /\ StraightLine
    /\ Len(amino_acid_order) = 5
    /\ amino_acids \in {<<"H", "P", "H", "P", "H">>, <<"H", "H", "H", "H", "H">>}
    /\ H_bonds = {}

\* The turn sequence [Start, straight, straight, straight, straight].
AllStraight == <<"Start", "straight", "straight", "straight", "straight">>

\* C13: the directional engine given a chain of length 5 and AllStraight
\* places the 5 residues on (n, n), (n, n+1), ..., (n, n+4); the directions
\* determined from the result contain no left and no right, and the bond
\* count is 0 for every H/P assignment.
C13_StraightRun ==
    (engine = "directional" /\ Len(amino_acids) = 5 /\ directions = AllStraight) =>
        /\ Returned =>
              /\ Len(amino_acid_order) = 5
              /\ \A i \in 1..5 :
                    amino_acid_order[i] = <<amino_acids[i], <<5, 5 + (i - 1)>>>>
        /\ pc = "sampled" =>
              /\ \A i \in 1..Len(amino_acids_directions) :
                    amino_acids_directions[i] \notin {"left", "right"}
              /\ Len(amino_acids_directions) = 5
              /\ hbonds = 0
        /\ pc = "analyzed" => H_bonds = {}

C13_Witness ==
    /\ engine = "directional"
    /\ directions = AllStraight
    /\ amino_acids = <<"H", "H", "H", "H", "H">>
    /\ pc = "sampled"
    /\ hbonds = 0
    /\ protein_dimensions = <<1, 5>>

\* C14: in a sample with residues on the grid the H-ratio is the quotient
\* of the bond count and the residues on the grid; it is 0 if and only if
\* the bond count is 0 and strictly positive otherwise.
C14_HRatioSign ==
    (pc = "sampled" /\ amino_acids_on_grid > 0) =>
        /\ hratio[2] > 0
        /\ hratio[1] * amino_acids_on_grid = hbonds * hratio[2]
        /\ (hratio[1] = 0) <=> (hbonds = 0)
        /\ hbonds # 0 => hratio[1] > 0

C14_Witness ==
    /\ pc = "sampled"
    /\ amino_acids_on_grid > 0
    /\ hbonds > 0
    /\ hratio[1] > 0

\* C15: the divisor of the H-ratio, the number of non-empty cells, is at
\* least 1 when hbonds / amino_acids_on_grid is evaluated, with each of the
\* three engines; the division never raises ZeroDivisionError.
C15_DivisorPositive ==
    /\ pc # "ZeroDivisionError"
    /\ pc = "sampled" =>
          /\ amino_acids_on_grid >= 1
          /\ amino_acids_on_grid = Len(amino_acid_order)

\* A sample of the backtracking engine after a backtrack.
C15_Witness ==
    /\ engine = "backtracking"
    /\ pc = "sampled"
    /\ backtrack_count > 0
    /\ amino_acids_on_grid >= 1

\* The cell the directional engine examines in its next iteration.
DirTarget ==
    LET move == movement_vectors[turn_orientation(current_orientation,
                                                  directions[dir_index])]
    IN <<current_row + move[1], current_col + move[2]>>

\* C16: every neighbour or target cell an engine examines while a residue
\* is still to be placed lies on the lattice: 0 <= row < 2n, 0 <= col < 2n.
C16_ExaminedInBounds ==
    /\ (engine = "stochastic" /\ pc = "loop" /\ amino_acids_copy # <<>>) =>
          \A k \in 1..4 :
             InBounds(neighbors(LastPosition[1], LastPosition[2])[k], grid_size)
    /\ (/\ engine = "backtracking" /\ pc \in {"start", "call"}
        /\ amino_acids_copy # <<>>
        /\ ~(last_amino_row = None \/ last_amino_col = None)) =>
          \A k \in 1..4 :
             InBounds(neighbors(last_amino_row, last_amino_col)[k], grid_size)
    /\ (/\ engine = "directional" /\ pc \in {"start", "loop"}
        /\ amino_acids_copy # <<>>
        /\ dir_index <= Len(directions)
        /\ directions[dir_index] # "Start") =>
          InBounds(DirTarget, grid_size)

\* The engine is about to examine the neighbours of a placement in the last
\* row or column of the lattice.
C16_Witness ==
    /\ engine \in {"stochastic", "backtracking"}
    /\ pc \in {"loop", "call"}
    /\ amino_acids_copy # <<>>
    /\ Len(amino_acid_order) = Len(amino_acids) - 1
    /\ \/ LastPosition[1] \in {1, grid_size - 2}
       \/ LastPosition[2] \in {1, grid_size - 2}

\* C17 as stated: no placement lies in row or column 0 or 2n - 1.
C17_NoBorder ==
    Generating =>
        \A p \in Positions :
            /\ p[1] \in 1..(grid_size - 2)
            /\ p[2] \in 1..(grid_size - 2)

\* C17 amended: no placement lies in row or column 0; a placement in row or
\* column 2n - 1 is the n-th of a conformation that is one straight line
\* from the centre, so no walk can leave the lattice.
C17_BorderOnlyLast ==
    Generating =>
        \A i \in 1..Len(amino_acid_order) :
            LET p == amino_acid_order[i][2]
            IN /\ p[1] \in 1..(grid_size - 1)
               /\ p[2] \in 1..(grid_size - 1)
               /\ (p[1] = grid_size - 1 \/ p[2] = grid_size - 1) =>
                     (i = Len(amino_acids) /\ StraightLine)

C17_Witness ==
    /\ Generating
    /\ Returned
    /\ Len(amino_acids) >= 2
    /\ Len(amino_acid_order) = Len(amino_acids)
    /\ LastPosition[2] = grid_size - 1

SetMin(S) == CHOOSE x \in S : \A y \in S : x <= y

SetMax(S) == CHOOSE x \in S : \A y \in S : x >= y

\* C18: the trimmed grid of a sample is the bounding box of the placements:
\* its shape is (max_row - min_row + 1, max_col - min_col + 1) and its cell
\* (r - min_row, c - min_col) holds what the lattice holds at (r, c), empty
\* cells inside the box included.
C18_TrimIsBoundingBox ==
    pc = "sampled" =>
        LET min_row == SetMin({p[1] : p \in Positions})
            max_row == SetMax({p[1] : p \in Positions})
            min_col == SetMin({p[2] : p \in Positions})
            max_col == SetMax({p[2] : p \in Positions})
            box == (0..(max_row - min_row)) \X (0..(max_col - min_col))
        IN /\ protein_dimensions = <<max_row - min_row + 1, max_col - min_col + 1>>
           /\ trimmed_grid.shape = protein_dimensions
           /\ DOMAIN trimmed_grid.cell = box
           /\ \A ij \in box :
                 trimmed_grid.cell[ij] = grid[<<min_row + ij[1], min_col + ij[2]>>]

\* A sample whose bounding box has several rows and columns and an empty cell.
C18_Witness ==
    /\ pc = "sampled"
    /\ protein_dimensions[1] >= 2
    /\ protein_dimensions[2] >= 2
    /\ \E ij \in DOMAIN trimmed_grid.cell : trimmed_grid.cell[ij] = ""

\* C20: in a run of the backtracking engine the placements and the
\* remaining residues together are the whole chain after every step:
\* len(amino_acid_order) + len(amino_acids) = n.
C20_NoResidueLost ==
    engine = "backtracking" =>
        Len(amino_acid_order) + Len(amino_acids_copy) = Len(amino_acids)

\* A step of the backtracking engine that backtracks.
BacktrackStep == engine = "backtracking" /\ backtrack_count' = backtrack_count + 1

\* A step of the backtracking engine that places a residue.
ForwardStep ==
    engine = "backtracking" /\ Len(amino_acid_order') = Len(amino_acid_order) + 1

\* C21: a backtrack step empties exactly the cell of the last entry of the
\* Placement Order and removes exactly that entry; every other cell and
\* every earlier entry is unchanged.
C21_BacktrackFrame ==
    [][BacktrackStep =>
          /\ Len(amino_acid_order) >= 1
          /\ grid[LastPosition] # ""
          /\ grid' = [grid EXCEPT ![LastPosition] = ""]
          /\ amino_acid_order' = SubSeq(amino_acid_order, 1, Len(amino_acid_order) - 1)]_vars

\* The engine has just backtracked out of a dead end.
C21_Witness ==
    /\ engine = "backtracking"
    /\ pc = "call"
    /\ we_just_backtracked = 1
    /\ backtrack_count = 1
    /\ grid[call_stack[Len(call_stack)]] = ""

\* The cell cleared by the backtrack of the call that invoked the pending one.
AbandonedCell == call_stack[Len(call_stack)]

\* C22: the forward placement that immediately follows a backtrack never
\* puts a residue onto the cell that this backtrack has just cleared.
C22_AbandonedCellFenced ==
    [][(ForwardStep /\ we_just_backtracked = 1) =>
          amino_acid_order'[Len(amino_acid_order')][2] # AbandonedCell]_vars

\* The cell the left-preferred rule selects after the last move: the left
\* cell if it is free, else the middle one if it is free, else the right one.
LeftPreferredCell ==
    LET prev == amino_acid_order[Len(amino_acid_order) - 1][2]
        heading == determine_direction(prev[1], prev[2], LastPosition[1], LastPosition[2])
        nb == get_deterministic_neighbors(LastPosition[1], LastPosition[2], heading)
    IN IF InBounds(nb[1], grid_size) /\ grid[nb[1]] = "" THEN nb[1]
       ELSE IF InBounds(nb[2], grid_size) /\ grid[nb[2]] = "" THEN nb[2]
       ELSE nb[3]

\* C23: a forward placement of the backtracking engine follows the rule
\* L or (not L and M) or (not L and not M and R) relative to the heading of
\* the last move.
C23_LeftPreferred ==
    [][(ForwardStep /\ Len(amino_acid_order) >= 2) =>
          amino_acid_order'[Len(amino_acid_order')][2] = LeftPreferredCell]_vars

\* The walker's heading in its i-th move.
OrientationAt(i) ==
    determine_direction(amino_acid_order[i][2][1], amino_acid_order[i][2][2],
                        amino_acid_order[i + 1][2][1], amino_acid_order[i + 1][2][2])

\* The turns i..j have been applied and all are the turn t.
AppliedAll(i, j, t) == j < dir_index /\ \A k \in i..j : directions[k] = t

\* C24: get_new_orientation gives each of the 12 (orientation, turn) pairs
\* its own result: left and right turn the heading by a quarter, and for
\* each orientation O the turn straight returns O unchanged.
C24_Exhaustive ==
    engine = "get_new_orientation" =>
        \A i \in 1..(dir_index - 1) :
            /\ OrientationAt(i + 1) \in Orientations
            /\ directions[i] = "straight" => OrientationAt(i + 1) = OrientationAt(i)
            /\ directions[i] # "straight" => OrientationAt(i + 1) # OrientationAt(i)

\* C25: four left turns return the walker to its heading, four right turns
\* do, a left turn followed by a right turn and a right turn followed by a
\* left turn do; left and right are each a bijection on the orientations.
C25_CyclicGroup ==
    /\ engine = "get_new_orientation" =>
          \A i \in 1..(dir_index - 1) :
              /\ AppliedAll(i, i + 3, "left") => OrientationAt(i + 4) = OrientationAt(i)
              /\ AppliedAll(i, i + 3, "right") => OrientationAt(i + 4) = OrientationAt(i)
              /\ (AppliedAll(i, i, "left") /\ AppliedAll(i + 1, i + 1, "right")) =>
                    OrientationAt(i + 2) = OrientationAt(i)
              /\ (AppliedAll(i, i, "right") /\ AppliedAll(i + 1, i + 1, "left")) =>
                    OrientationAt(i + 2) = OrientationAt(i)
    /\ \A t \in {"left", "right"} :
          {get_new_orientation(o, t) : o \in Orientations} = Orientations

\* get_new_orientation has been applied to four left turns in a row.
C25_Witness ==
    /\ engine = "get_new_orientation"
    /\ AppliedAll(1, 4, "left")
    /\ OrientationAt(5) = OrientationAt(1)
    /\ OrientationAt(3) # OrientationAt(1)

\* C26: after a backtrack step in which the residues placed since the last
\* backtrack exceed the fence count no cell is fence-marked and the fence
\* count is 0; every backtrack step resets the placed-since-backtrack
\* counter to 0, and every forward placement after the first residue
\* increases it by exactly 1.
C26_FenceReset ==
    [][/\ BacktrackStep =>
             /\ acids_placed_since_backtrack > fences =>
                   /\ \A c \in DOMAIN grid' : grid'[c] # "F"
                   /\ fences' = 0
             /\ acids_placed_since_backtrack' = 0
       /\ (ForwardStep /\ Len(amino_acid_order) >= 1) =>
             acids_placed_since_backtrack' = acids_placed_since_backtrack + 1]_vars

\* A forward placement has followed a backtrack that reset the counter.
C26_Witness ==
    /\ engine = "backtracking"
    /\ backtrack_count >= 1
    /\ we_just_backtracked = 0
    /\ acids_placed_since_backtrack = 1
    /\ fences = 0

\* C27 as stated: the number of nested place_amino_acid calls never exceeds
\* the chain length n.
C27_DepthAtMostN ==
    engine = "backtracking" => depth <= Len(amino_acids)

\* C27 amended: every call is made inside the previous one, so the nesting
\* is one call per placement, one per backtrack and the base-case call: it
\* is the order length plus twice the backtracks while residues remain to
\* be placed, never exceeds n + 1 + backtrack_count, and is exactly that
\* many when the run returns.
C27_DepthBound ==
    engine = "backtracking" =>
        /\ depth = Len(call_stack)
        /\ depth <= Len(amino_acids) + 1 + backtrack_count
        /\ pc = "call" => depth = Len(amino_acid_order) + 2 * backtrack_count
        /\ pc = "done" => depth = Len(amino_acids) + 1 + backtrack_count

\* A run with a backtrack has returned from n + 2 nested calls.
C27_Witness ==
    /\ engine = "backtracking"
    /\ pc = "done"
    /\ backtrack_count = 1
    /\ depth = Len(amino_acids) + 2

\* The engine is about to make an attempt that fails: the stochastic engine
\* has no empty neighbour of the last placement, or the target cell of the
\* directional engine's turn is occupied.
DeadEndAttempt ==
    \/ /\ engine = "stochastic"
       /\ pc = "loop"
       /\ FreeAdjacent = {}
    \/ /\ engine = "directional"
       /\ pc \in {"start", "loop"}
       /\ dir_index <= Len(directions)
       /\ directions[dir_index] # "Start"
       /\ DirTarget \in DOMAIN grid
       /\ grid[DirTarget] # ""

\* C28: a failed attempt of the stochastic or of the directional engine
\* changes no lattice cell, does not change the Placement Order, consumes no
\* residue of the remaining queue, and ends the run.
C28_DeadEndNoSideEffect ==
    [][DeadEndAttempt =>
          /\ grid' = grid
          /\ amino_acid_order' = amino_acid_order
          /\ amino_acids_copy' = amino_acids_copy
          /\ pc' = "done"]_vars

\* The directional engine has returned in front of an occupied target cell
\* with residues left in the queue.
C28_Witness ==
    /\ engine = "directional"
    /\ pc = "done"
    /\ amino_acids_copy # <<>>
    /\ Len(amino_acid_order) + Len(amino_acids_copy) = Len(amino_acids)
    /\ grid[<<current_row + movement_vectors[current_orientation][1],
              current_col + movement_vectors[current_orientation][2]>>] # ""

\* C29: a generation call starts on an empty lattice, an empty Placement
\* Order and a copy of the chain, and no step of any engine changes the
\* caller's chain amino_acids.
C29_CallerChainUnchanged ==
    /\ [](pc = "start" =>
            /\ amino_acid_order = <<>>
            /\ amino_acids_copy = amino_acids
            /\ \A c \in DOMAIN grid : grid[c] = "")
    /\ [][amino_acids' = amino_acids]_vars

\* A run of the backtracking engine that popped and re-inserted a residue
\* has returned; the caller's chain has its n residues.
C29_Witness ==
    /\ engine = "backtracking"
    /\ Returned
    /\ backtrack_count >= 1
    /\ Len(amino_acids) = MaxLen
    /\ Len(amino_acid_order) < Len(amino_acids)

C32_SecondRightOfCentre ==
    (engine = "directional" /\ Len(amino_acids) >= 2) =>
        /\ directions[1] = "Start" /\ directions[2] = "straight"
        /\ Len(directions) = Len(amino_acids)
        /\ Returned => Len(amino_acid_order) >= 2
        /\ Len(amino_acid_order) >= 2 =>
              amino_acid_order[2] =
                 <<amino_acids[2], <<Len(amino_acids), Len(amino_acids) + 1>>>>

C32_Witness ==
    /\ engine = "directional"
    /\ Returned
    /\ Len(amino_acids) >= 3
    /\ directions[3] = "left"
    /\ amino_acid_order[2][2] = <<Len(amino_acids), Len(amino_acids) + 1>>
    /\ amino_acid_order[3][2] = <<Len(amino_acids) - 1, Len(amino_acids) + 1>>

\* C38: the directional engine places all n residues of every chain of
\* length n <= 4; a run that stops early has at least 4 placements; for
\* n = 5 the turns Start, straight, left, left, left stop the run with
\* exactly 4 placements, the fifth target being the centre cell.
C38_DirectionalNeedsFour ==
    (engine = "directional" /\ Returned) =>
        LET n == Len(amino_acids)
            L == Len(amino_acid_order)
            move == movement_vectors[current_orientation]
        IN /\ n <= 4 => L = n
           /\ L < n => L >= 4
           /\ (n = 5 /\ directions = <<"Start", "straight", "left", "left", "left">>) =>
                 /\ L = 4
                 /\ [i \in 1..L |-> amino_acid_order[i][2]] =
                       <<<<5, 5>>, <<5, 6>>, <<4, 6>>, <<4, 5>>>>
                 /\ <<current_row + move[1], current_col + move[2]>> =
                       <<centre(grid_size), centre(grid_size)>>
                 /\ grid[<<centre(grid_size), centre(grid_size)>>] = amino_acids[1]

C38_Witness ==
    /\ engine = "directional"
    /\ Returned
    /\ Len(amino_acids) = 5
    /\ directions = <<"Start", "straight", "left", "left", "left">>
    /\ Len(amino_acid_order) = 4
    /\ current_orientation = "down"

\* C39: determine_directions applied to the Placement Order returned by
\* initialize_grid_directional, of length L, is the first L entries of the
\* turn sequence the engine was given.
C39_EngineRoundTrip ==
    (engine = "directional" /\ Returned) =>
        determine_directions(amino_acid_order) =
            SubSeq(directions, 1, Len(amino_acid_order))

C39_Witness ==
    /\ engine = "directional"
    /\ Returned
    /\ Len(amino_acid_order) >= 5
    /\ Len(amino_acid_order) < Len(directions)
    /\ {"left", "right", "straight"} \subseteq
          {determine_directions(amino_acid_order)[i] : i \in 1..Len(amino_acid_order)}

\* The pairs of indices of the Placement Order whose positions form bond b.
BondIndices(b) ==
    {ij \in (1..Len(amino_acid_order)) \X (1..Len(amino_acid_order)) :
        /\ ij[1] < ij[2]
        /\ b = {amino_acid_order[ij[1]][2], amino_acid_order[ij[2]][2]}}

\* C40: every H-bond find_H_bonds returns joins two placements whose
\* indices in the Placement Order differ by an odd number >= 3, so a
\* conformation with at most 3 placements has no H-bond.
C40_BondIndexParity ==
    pc = "analyzed" =>
        /\ \A b \in H_bonds :
              /\ BondIndices(b) # {}
              /\ \A ij \in BondIndices(b) :
                    (ij[2] - ij[1]) % 2 = 1 /\ ij[2] - ij[1] >= 3
        /\ Len(amino_acid_order) <= 3 => H_bonds = {}

C40_Witness ==
    /\ pc = "analyzed"
    /\ \E b \in H_bonds : \E ij \in BondIndices(b) : ij[2] - ij[1] = 3
    /\ \E b \in H_bonds : \E ij \in BondIndices(b) : ij[2] - ij[1] = 5

\* C37: a dead end needs at least 8 placed residues: on a chain of length
\* n <= 8 the stochastic engine places all n residues and the backtracking
\* engine never backtracks; a stochastic run that stops short has at least
\* 8 placements, and a backtrack happens with at least 8 residues placed.
C37_DeadEndNeedsEight ==
    /\ (engine = "stochastic" /\ Returned) =>
          /\ Len(amino_acids) <= 8 => Len(amino_acid_order) = Len(amino_acids)
          /\ Len(amino_acid_order) < Len(amino_acids) => Len(amino_acid_order) >= 8
    /\ engine = "backtracking" =>
          /\ Len(amino_acids) <= 8 => backtrack_count = 0
          /\ (pc \in {"start", "call"} /\ amino_acids_copy # <<>>
                /\ amino_acid_order # <<>> /\ FreeAdjacent = {}) =>
                Len(amino_acid_order) >= 8

C37_Witness ==
    /\ engine = "stochastic"
    /\ Returned
    /\ Len(amino_acids) = 9
    /\ Len(amino_acid_order) = 8
    /\ FreeAdjacent = {}

\* The lattice that holds exactly the entries of an order: the empty
\* lattice with each entry's symbol written into the entry's cell.
EmptyLattice == [n \in 1..(MaxLen + MaxDirLen) |-> EmptyGrid(2 * n)]

RECURSIVE GridOf(_, _)
GridOf(order, size) ==
    IF order = <<>> THEN EmptyLattice[size \div 2]
    ELSE [GridOf(SubSeq(order, 1, Len(order) - 1), size)
             EXCEPT ![order[Len(order)][2]] = order[Len(order)][1]]

\* C33: in every reachable state of each engine the lattice holds symbol s
\* in a cell exactly if the Placement Order has the entry (s, cell), no two
\* entries share a cell and every other cell is empty, so the number of
\* non-empty cells (amino_acids_on_grid) is the length of the order.
C33_GridMatchesOrder ==
    /\ NoSharedPosition
    /\ \A i \in 1..Len(amino_acid_order) :
          amino_acid_order[i][1] \in {"H", "P"}
    /\ grid = GridOf(amino_acid_order, grid_size)
    /\ pc = "sampled" => amino_acids_on_grid = Len(amino_acid_order)

C33_Witness ==
    /\ engine = "backtracking"
    /\ pc = "sampled"
    /\ backtrack_count >= 1
    /\ amino_acids_on_grid = Len(amino_acid_order)
    /\ amino_acids_on_grid = Len(amino_acids) - backtrack_count

\* A place_amino_acid call is entered with a residue left, a last
\* placement and no empty neighbour of it.
BTDeadEnd ==
    /\ engine = "backtracking"
    /\ pc \in {"start", "call"}
    /\ amino_acids_copy # <<>>
    /\ amino_acid_order # <<>>
    /\ FreeAdjacent = {}

BTAccounting ==
    engine = "backtracking" =>
        /\ Len(amino_acid_order) + Len(amino_acids_copy) + backtrack_count
              = Len(amino_acids)
        /\ (pc = "done" /\ is_placed = "True") =>
              Len(amino_acid_order) = Len(amino_acids) - backtrack_count

BTCountStep ==
    /\ backtrack_count' # backtrack_count =>
          BTDeadEnd /\ backtrack_count' = backtrack_count + 1
    /\ BTDeadEnd => backtrack_count' = backtrack_count + 1

\* C34: the backtrack counter increases by exactly 1 at each dead end and
\* at no other step; at the entry of every place_amino_acid call
\* len(order) + len(remaining residues) + backtrack_count = n, so a
\* successful run returns an order of n - backtrack_count entries.
C34_BacktrackAccounting == []BTAccounting /\ [][BTCountStep]_vars

C34_Witness ==
    /\ engine = "backtracking"
    /\ pc = "call"
    /\ backtrack_count = 1
    /\ we_just_backtracked = 1
    /\ Len(amino_acids_copy) = 1
    /\ Len(amino_acid_order) = Len(amino_acids) - 2

\* C35: no backtrack step empties the Placement Order, so the failure
\* branch is never taken: place_amino_acid never returns False and every
\* run returns True.
C35_NeverFails ==
    engine = "backtracking" =>
        /\ is_placed # "False"
        /\ backtrack_count >= 1 => Len(amino_acid_order) >= 1
        /\ pc = "done" => is_placed = "True"
        /\ BTDeadEnd => Len(amino_acid_order) >= 2

C35_Witness ==
    /\ engine = "backtracking"
    /\ pc = "done"
    /\ is_placed = "True"
    /\ backtrack_count >= 1
    /\ Len(amino_acid_order) >= 7

\* C36: no lattice cell ever holds 'F', the fence count is 0 and the fence
\* limit equals the backtrack count in every reachable state; the
\* candidate cells of a placement are exactly the empty lattice neighbours
\* of the last placement.
C36_NoFence ==
    engine = "backtracking" =>
        /\ \A c \in DOMAIN grid : grid[c] # "F"
        /\ fences = 0
        /\ fence_limit = backtrack_count
        /\ (pc \in {"start", "call"} /\ amino_acids_copy # <<>>
              /\ amino_acid_order # <<>>) =>
              /\ <<last_amino_row, last_amino_col>> = LastPosition
              /\ valid_neighbors(grid, grid_size, last_amino_row, last_amino_col)
                    = FreeAdjacent

C36_Witness ==
    /\ engine = "backtracking"
    /\ pc = "call"
    /\ backtrack_count >= 1
    /\ fence_limit = backtrack_count
    /\ fences = 0
    /\ acids_placed_since_backtrack = 0
    /\ amino_acids_copy # <<>>
    /\ valid_neighbors(grid, grid_size, last_amino_row, last_amino_col) # {}
    /\ \A c \in DOMAIN grid : grid[c] \in {"", "H", "P"}

\* The residues of the chain from index k on.
ChainFrom(k) == SubSeq(amino_acids, k, Len(amino_acids))

\* The stochastic engine's locals as a function of the chain and the cells
\* picked so far (the positions of the order).
StochasticReplay ==
    engine = "stochastic" =>
        LET n == Len(amino_acids)
            L == Len(amino_acid_order)
        IN /\ \A i \in 1..L : amino_acid_order[i][1] = amino_acids[i]
           /\ amino_acids_copy = ChainFrom(L + 1)
           /\ total_amino_acids = n - L
           /\ grid = GridOf(amino_acid_order, 2 * n)
           /\ (pc = "start") = (L = 0)
           /\ L = n => pc # "loop"
           /\ (L >= 1 /\ L < n /\ FreeAdjacent # {}) => pc = "loop"

\* The directional engine's locals as a function of the chain and the turn
\* sequence.
DirectionalReplay ==
    engine = "directional" =>
        LET n == Len(amino_acids)
            L == Len(amino_acid_order)
            broke == Returned /\ L < n
        IN /\ \A i \in 1..L :
                 amino_acid_order[i] = <<amino_acids[i], TargetAt(directions, i, n)>>
           /\ amino_acids_copy = ChainFrom(L + 1)
           /\ grid = GridOf(amino_acid_order, 2 * n)
           /\ <<current_row, current_col>> = TargetAt(directions, L, n)
           /\ current_orientation =
                 HeadingAt(directions, IF broke THEN L + 1 ELSE L)
           /\ dir_index = L + 1
           /\ L < FirstBlocked(directions, n)
           /\ pc \in {"start", "loop"} => L < n

\* The last position at the entry of each place_amino_acid call made so
\* far, the pending call included.
BTTrace ==
    IF pc \in {"start", "call"}
    THEN Append(call_stack, <<last_amino_row, last_amino_col>>)
    ELSE call_stack

\* The order and the backtrack count at the entry of call k, computed
\* from the chain and the cells picked: a call with an empty order places
\* at T[k], a call whose last position has a free neighbour places the next
\* residue at the picked cell T[k], any other call backtracks.
RECURSIVE ReplayBT(_, _, _)
ReplayBT(ch, T, k) ==
    IF k <= 1 THEN [order |-> <<>>, bc |-> 0]
    ELSE LET s == ReplayBT(ch, T, k - 1)
             L == Len(s.order)
             residue == ch[L + s.bc + 1]
             cells == {s.order[i][2] : i \in 1..L}
             free == {q \in Adjacent(T[k - 1]) : q \notin cells}
         IN IF L = 0 \/ free # {}
            THEN [order |-> Append(s.order, <<residue, T[k]>>), bc |-> s.bc]
            ELSE [order |-> SubSeq(s.order, 1, L - 1), bc |-> s.bc + 1]

\* The backtracking engine's locals as a function of the chain and the
\* cells picked so far.
BacktrackingReplay ==
    engine = "backtracking" =>
        LET n == Len(amino_acids)
            L == Len(amino_acid_order)
            r == ReplayBT(amino_acids, BTTrace, Len(BTTrace))
        IN /\ amino_acid_order = r.order
           /\ backtrack_count = r.bc
           /\ amino_acids_copy = ChainFrom(L + backtrack_count + 1)
           /\ grid = GridOf(amino_acid_order, 2 * n)
           /\ <<last_amino_row, last_amino_col>> =
                 (IF L = 0 THEN <<None, None>> ELSE LastPosition)
           /\ depth = Len(call_stack)
           /\ fence_limit = backtrack_count
           /\ fences = 0
           /\ (Returned \/ L = 0) => BTTrace[Len(BTTrace)] = <<last_amino_row, last_amino_col>>

\* C31: a placement run is a function of its chain and its choices: in
\* every state of a run the engine's locals (lattice, order, remaining
\* residues, position, heading, backtrack count) are the values computed
\* from the chain and the choices made so far alone, in a first run and in
\* a run that follows earlier runs whose results the caller still holds.
C31_RunIsFunctionOfChoices ==
    /\ StochasticReplay
    /\ DirectionalReplay
    /\ BacktrackingReplay

C31_Witness ==
    /\ engine = "backtracking"
    /\ H_bonds # {}
    /\ pc = "call"
    /\ Len(amino_acid_order) = 3
    /\ backtrack_count = 0

====
